---- MODULE Spec2Model ----
(***************************************************************************)
(* speech_to_text.py: the orchestration of one transcription               *)
(* (transcribe_audio), of the batch loop (transcribe_directory) and of the *)
(* command-line entry point.  The external collaborators (ffmpeg, ffprobe, *)
(* the storage client, the speech client, the file system) are the         *)
(* environment: each call's outcome is a nondeterministic choice.          *)
(*                                                                         *)
(* A file name is a sequence of one-character strings; all files live in   *)
(* one directory.  Text (a transcript) is a sequence of characters too.    *)
(***************************************************************************)
EXTENDS Integers, Sequences, FiniteSets, TLC

VARIABLES
    mode,              \* "cli": sys.argv[1] given; "batch": no argument
    argv,              \* sys.argv[1] (cli mode)
    entries,           \* os.listdir(directory_path), in listing order
    audio_files,       \* transcribe_directory's list of matching files
    idx,               \* position of the batch loop in audio_files (1-based)
    pc,                \* position of the program
    fs,                \* names of the files that exist
    written,           \* the text files written: name -> content
    nextTemp,          \* how many temporary names tempfile has handed out
    audio_file_path,   \* transcribe_audio's argument
    audio_to_process,  \* transcribe_audio's local
    duration,          \* transcribe_audio's local (an optional number)
    gcs_uri,           \* transcribe_audio's local (an optional locator)
    response,          \* transcribe_audio's local: the service's results
    transcription,     \* what transcribe_audio returned (an optional text)
    calls,             \* the external calls of the current transcribe_audio
    created,           \* the temporary files the current transcribe_audio created
    completed,         \* the recognition call of the current file returned a response
    outcomes           \* per finished transcribe_audio call: file, result, completed

vars == <<mode, argv, entries, audio_files, idx, pc, fs, written, nextTemp,
          audio_file_path, audio_to_process, duration, gcs_uri, response,
          transcription, calls, created, completed, outcomes>>

(***************************************************************************)
(* Bounds of the model.                                                    *)
(***************************************************************************)
MaxFiles == 2      \* directory entries of a batch run
MaxResults == 2    \* results of one recognition response
MaxAlts == 2       \* alternatives of one result

(***************************************************************************)
(* Program constants.                                                      *)
(***************************************************************************)
LongThreshold == 60      \* duration > 60 selects the long-running path

BucketName == "jamesbaker-audio-transcription-2026"

Wav == <<".", "w", "a", "v">>
Txt == <<".", "t", "x", "t">>

supported_extensions ==
    { Wav,
      <<".", "m", "p", "3">>, <<".", "m", "p", "4">>, <<".", "m", "4", "a">>,
      <<".", "f", "l", "a", "c">>, <<".", "o", "g", "g">>,
      <<".", "w", "e", "b", "m">>, <<".", "c", "a", "f">> }

(***************************************************************************)
(* Optional values (Python's None or a value).                             *)
(***************************************************************************)
None == [isNone |-> TRUE, val |-> << >>]
Some(v) == [isNone |-> FALSE, val |-> v]
NoDuration == [isNone |-> TRUE, val |-> 0]

(***************************************************************************)
(* str.lower(), on the characters file names of the model are made of.     *)
(***************************************************************************)
LowerChar(c) ==
    CASE c = "W" -> "w"
      [] c = "A" -> "a"
      [] c = "V" -> "v"
      [] c = "M" -> "m"
      [] c = "P" -> "p"
      [] OTHER -> c

IdentityLower(s) == s

Lower(s) == [i \in 1..Len(s) |-> LowerChar(s[i])]

(***************************************************************************)
(* os.path.splitext: the extension starts at the last dot, unless only     *)
(* dots precede it.                                                        *)
(***************************************************************************)
LastDot(name) ==
    LET dots == {i \in 1..Len(name) : name[i] = "."}
    IN  IF dots = {} THEN 0 ELSE CHOOSE i \in dots : \A j \in dots : j <= i

SplitAt(name) ==
    LET d == LastDot(name)
    IN  IF d = 0 \/ (\A j \in 1..(d - 1) : name[j] = ".")
        THEN Len(name) + 1
        ELSE d

Root(name) == SubSeq(name, 1, SplitAt(name) - 1)
Ext(name) == SubSeq(name, SplitAt(name), Len(name))

OutputFile(audio_file) == Root(audio_file) \o Txt

(***************************************************************************)
(* tempfile.NamedTemporaryFile(suffix='.wav', delete=False).name: a name   *)
(* no existing file has.                                                   *)
(***************************************************************************)
TmpDigit == <<"0", "1", "2", "3", "4", "5", "6", "7", "8", "9">>
TempName(k) == <<"t", "m", "p", TmpDigit[k + 1]>> \o Wav

(***************************************************************************)
(* The files a run may meet.                                               *)
(***************************************************************************)
Candidates ==
    { <<"a", ".", "w", "a", "v">>,
      <<"b", ".", "W", "A", "V">>,
      <<"c", ".", "W", "a", "v">>,
      <<"d", ".", "m", "p", "3">>,
      <<"e", ".", "M", "P", "3">>,
      <<"n", ".", "t", "x", "t">> }

BatchCandidates ==
    { <<"a", ".", "w", "a", "v">>,
      <<"b", ".", "W", "A", "V">>,
      <<"d", ".", "m", "p", "3">>,
      <<"n", ".", "t", "x", "t">> }

Distinct(l) == \A i, j \in 1..Len(l) : i # j => l[i] # l[j]
Range(l) == { l[i] : i \in 1..Len(l) }

(***************************************************************************)
(* What the recognition service may answer: a response is a sequence of    *)
(* results, a result a non-empty ranked sequence of alternatives, an       *)
(* alternative its transcript.                                             *)
(***************************************************************************)
Texts == { <<"a">>, <<"b">> }

RECURSIVE SeqsUpTo(_, _)
SeqsUpTo(S, n) ==
    IF n = 0 THEN { << >> }
    ELSE LET shorter == SeqsUpTo(S, n - 1)
         IN  shorter \cup
             { Append(l, x) : l \in {y \in shorter : Len(y) = n - 1},
                              x \in S }

Results == SeqsUpTo(Texts, MaxAlts) \ { << >> }
Responses == SeqsUpTo(Results, MaxResults)

\* A batch run draws the answers from a small pool (no result, one result):
\* what the batch loop does with a transcript depends only on its emptiness.
BatchResponses == { << >>, << << <<"a">> >> >> }

ResponsePool(m) == IF m = "cli" THEN Responses ELSE BatchResponses

Durations == { 0, 45, LongThreshold, LongThreshold + 1, 2 * LongThreshold }

(***************************************************************************)
(* get_audio_duration: ffprobe's outcome to an optional duration.          *)
(***************************************************************************)
ProbeOutcomes ==
    { [exc |-> "none", out |-> d] : d \in Durations } \cup
    { [exc |-> e, out |-> 0] :
        e \in {"FileNotFoundError", "CalledProcessError", "ValueError"} }

get_audio_duration(o) ==
    IF o.exc \in {"FileNotFoundError", "CalledProcessError", "ValueError"}
    THEN NoDuration
    ELSE [isNone |-> FALSE, val |-> o.out]

(***************************************************************************)
(* use_long_running = duration and duration > 60: None and 0.0 are falsy.  *)
(***************************************************************************)
UseLongRunningGe(d) == (~d.isNone) /\ d.val # 0 /\ d.val >= LongThreshold

UseLongRunning(d) == (~d.isNone) /\ d.val # 0 /\ d.val > LongThreshold

(***************************************************************************)
(* upload_to_gcs: the locator on success, None on any exception.           *)
(***************************************************************************)
GcsUri(file_path) == <<"gs://", BucketName, "/">> \o file_path

upload_to_gcs(file_path, ok) ==
    IF ok THEN Some(GcsUri(file_path)) ELSE None

NeverStagingFailed(uri) == FALSE

\* if not gcs_uri: return None
StagingFailed(uri) == uri.isNone \/ uri.val = << >>

(***************************************************************************)
(* except (FileNotFoundError, subprocess.CalledProcessError)               *)
(***************************************************************************)
ConvertOutcomes == {"ok", "FileNotFoundError", "CalledProcessError"}

ConvertCaughtOnlyNotFound(e) == e = "FileNotFoundError"

ConvertCaught(e) == e \in {"FileNotFoundError", "CalledProcessError"}

(***************************************************************************)
(* if audio_to_process != audio_file_path                                  *)
(***************************************************************************)
AlwaysCleanup(atp, afp) == TRUE

NeedsCleanup(atp, afp) == atp # afp

(***************************************************************************)
(* The transcript of a response: for result in response.results, for       *)
(* alternative in result.alternatives, transcription += transcript.        *)
(***************************************************************************)
RECURSIVE ConcatAll(_)
ConcatAll(ss) ==
    IF ss = << >> THEN << >> ELSE Head(ss) \o ConcatAll(Tail(ss))

Extract(resp) ==
    ConcatAll([i \in 1..Len(resp) |-> ConcatAll(resp[i])])

\* Python truthiness of transcribe_audio's result: None and "" are falsy.
Truthy(t) == (~t.isNone) /\ t.val # << >>

ReadBytes(p) == <<"bytes of">> \o p

Call(op, arg, res) == [op |-> op, arg |-> arg, res |-> res]

RecognitionOps == {"recognize", "long_running_recognize"}

(***************************************************************************)
(* The initial state: the program starts with or without an argument.      *)
(* A file named on the command line may be missing; a file of the listing  *)
(* may have vanished by the time the loop reaches it.                      *)
(***************************************************************************)
Init ==
    /\ mode \in {"cli", "batch"}
    /\ \/ /\ mode = "cli"
          /\ argv \in Candidates
          /\ entries = << >>
          /\ fs \in { {}, {argv} }
       \/ /\ mode = "batch"
          /\ argv = << >>
          /\ entries \in { l \in SeqsUpTo(BatchCandidates, MaxFiles) : Distinct(l) }
          /\ fs \in SUBSET Range(entries)
    /\ audio_files = << >>
    /\ idx = 0
    /\ pc = "main"
    /\ written = << >>
    /\ nextTemp = 0
    /\ audio_file_path = << >>
    /\ audio_to_process = << >>
    /\ duration = NoDuration
    /\ gcs_uri = None
    /\ response = << >>
    /\ transcription = None
    /\ calls = << >>
    /\ created = {}
    /\ completed = FALSE
    /\ outcomes = << >>

(***************************************************************************)
(* Locals of transcribe_audio, as they are before a call.                  *)
(***************************************************************************)
FreshLocals ==
    /\ audio_to_process' = << >>
    /\ duration' = NoDuration
    /\ gcs_uri' = None
    /\ response' = << >>
    /\ transcription' = None
    /\ calls' = << >>
    /\ created' = {}
    /\ completed' = FALSE

\* transcribe_audio returns r: the call is recorded.
Return(r, done) ==
    /\ transcription' = r
    /\ completed' = done
    /\ outcomes' = Append(outcomes,
                          [file |-> audio_file_path, ret |-> r, completed |-> done])
    /\ pc' = "returned"

(***************************************************************************)
(* __main__: with an argument, transcribe that file; without, the          *)
(* directory.  transcribe_directory first lists the matching files.        *)
(***************************************************************************)
MainCli ==
    /\ pc = "main"
    /\ mode = "cli"
    /\ audio_file_path' = argv
    /\ pc' = "entry"
    /\ UNCHANGED <<mode, argv, entries, audio_files, idx, fs, written, nextTemp,
                   audio_to_process, duration, gcs_uri, response, transcription,
                   calls, created, completed, outcomes>>

ListAudioFiles ==
    /\ pc = "main"
    /\ mode = "batch"
    /\ audio_files' = SelectSeq(entries, LAMBDA f : Lower(Ext(f)) \in supported_extensions)
    /\ IF audio_files' = << >>
       THEN pc' = "done" /\ idx' = idx
       ELSE pc' = "loop" /\ idx' = 1
    /\ UNCHANGED <<mode, argv, entries, fs, written, nextTemp, audio_file_path,
                   audio_to_process, duration, gcs_uri, response, transcription,
                   calls, created, completed, outcomes>>

\* for audio_file in audio_files: transcription = transcribe_audio(audio_file)
LoopStep ==
    /\ pc = "loop"
    /\ IF idx > Len(audio_files)
       THEN /\ pc' = "done"
            /\ UNCHANGED audio_file_path
       ELSE /\ pc' = "entry"
            /\ audio_file_path' = audio_files[idx]
    /\ UNCHANGED <<mode, argv, entries, audio_files, idx, fs, written, nextTemp,
                   audio_to_process, duration, gcs_uri, response, transcription,
                   calls, created, completed, outcomes>>

(***************************************************************************)
(* transcribe_audio, step by step.                                         *)
(***************************************************************************)
\* The existence check and the choice by extension.
CheckExists ==
    /\ pc = "entry"
    /\ IF audio_file_path \notin fs
       THEN /\ Return(None, FALSE)
            /\ UNCHANGED audio_to_process
       ELSE /\ audio_to_process' = audio_file_path
            /\ pc' = IF Lower(Ext(audio_file_path)) # Wav THEN "convert" ELSE "client"
            /\ UNCHANGED <<transcription, completed, outcomes>>
    /\ UNCHANGED <<mode, argv, entries, audio_files, idx, fs, written, nextTemp,
                   audio_file_path, duration, gcs_uri, response, calls, created>>

\* The temporary file is created, then ffmpeg runs; its failure returns None.
Convert ==
    /\ pc = "convert"
    /\ nextTemp < 9
    /\ \E e \in ConvertOutcomes :
         LET wav_file == TempName(nextTemp) IN
         /\ nextTemp' = nextTemp + 1
         /\ fs' = fs \cup {wav_file}
         /\ created' = created \cup {wav_file}
         /\ calls' = Append(calls, Call("ffmpeg", audio_file_path, e))
         /\ IF e = "ok"
            THEN /\ audio_to_process' = wav_file
                 /\ pc' = "client"
                 /\ UNCHANGED <<transcription, completed, outcomes>>
            ELSE IF ConvertCaught(e)
            THEN /\ Return(None, FALSE)
                 /\ UNCHANGED audio_to_process
            ELSE /\ pc' = "crashed"
                 /\ UNCHANGED <<audio_to_process, transcription, completed, outcomes>>
    /\ UNCHANGED <<mode, argv, entries, audio_files, idx, written, audio_file_path,
                   duration, gcs_uri, response>>

\* client = speech_v1.SpeechClient(), outside any try.
CreateClient ==
    /\ pc = "client"
    /\ \E ok \in BOOLEAN :
         /\ calls' = Append(calls, Call("SpeechClient", << >>, IF ok THEN "ok" ELSE "raises"))
         /\ pc' = IF ok THEN "probe" ELSE "crashed"
    /\ UNCHANGED <<mode, argv, entries, audio_files, idx, fs, written, nextTemp,
                   audio_file_path, audio_to_process, duration, gcs_uri, response,
                   transcription, created, completed, outcomes>>

\* duration = get_audio_duration(audio_to_process); use_long_running
Probe ==
    /\ pc = "probe"
    /\ \E o \in ProbeOutcomes :
         /\ duration' = get_audio_duration(o)
         /\ calls' = Append(calls, Call("ffprobe", audio_to_process, o.exc))
         /\ pc' = IF UseLongRunning(duration') THEN "upload" ELSE "recognize"
    /\ UNCHANGED <<mode, argv, entries, audio_files, idx, fs, written, nextTemp,
                   audio_file_path, audio_to_process, gcs_uri, response,
                   transcription, created, completed, outcomes>>

\* gcs_uri = upload_to_gcs(audio_to_process); if not gcs_uri: return None
Upload ==
    /\ pc = "upload"
    /\ \E ok \in BOOLEAN :
         /\ gcs_uri' = upload_to_gcs(audio_to_process, ok)
         /\ calls' = Append(calls, Call("upload_to_gcs", audio_to_process, IF ok THEN "ok" ELSE "raises"))
         /\ IF StagingFailed(gcs_uri')
            THEN Return(None, FALSE)
            ELSE /\ pc' = "recognize"
                 /\ UNCHANGED <<transcription, completed, outcomes>>
    /\ UNCHANGED <<mode, argv, entries, audio_files, idx, fs, written, nextTemp,
                   audio_file_path, audio_to_process, duration, response, created>>

\* The try block: the long-running job on the locator, or the synchronous
\* call on the file's bytes; any exception returns None.
RecognizeLong ==
    /\ pc = "recognize"
    /\ UseLongRunning(duration)
    /\ LET audio == [kind |-> "uri", val |-> gcs_uri.val] IN
       \/ \E r \in ResponsePool(mode) :
            /\ calls' = Append(calls, Call("long_running_recognize", audio, "ok"))
            /\ response' = r
            /\ pc' = "cleanup"
            /\ completed' = TRUE
            /\ UNCHANGED <<transcription, outcomes>>
       \/ \E e \in {"submit raises", "wait raises", "wait times out"} :
            /\ calls' = Append(calls, Call("long_running_recognize", audio, e))
            /\ Return(None, FALSE)
            /\ UNCHANGED response
    /\ UNCHANGED <<mode, argv, entries, audio_files, idx, fs, written, nextTemp,
                   audio_file_path, audio_to_process, duration, gcs_uri, created>>

RecognizeSync ==
    /\ pc = "recognize"
    /\ ~UseLongRunning(duration)
    /\ LET audio == [kind |-> "content", val |-> ReadBytes(audio_to_process)] IN
       \/ \* open() or read() raises
          /\ Return(None, FALSE)
          /\ UNCHANGED <<calls, response>>
       \/ \E r \in ResponsePool(mode) :
            /\ calls' = Append(calls, Call("recognize", audio, "ok"))
            /\ response' = r
            /\ pc' = "cleanup"
            /\ completed' = TRUE
            /\ UNCHANGED <<transcription, outcomes>>
       \/ /\ calls' = Append(calls, Call("recognize", audio, "raises"))
          /\ Return(None, FALSE)
          /\ UNCHANGED response
    /\ UNCHANGED <<mode, argv, entries, audio_files, idx, fs, written, nextTemp,
                   audio_file_path, audio_to_process, duration, gcs_uri, created>>

\* The clean-up of the temporary file (errors of os.remove are swallowed),
\* then the extraction of the text and the return.
CleanupAndExtract ==
    /\ pc = "cleanup"
    /\ IF NeedsCleanup(audio_to_process, audio_file_path)
       THEN \/ /\ calls' = Append(calls, Call("remove", audio_to_process, "ok"))
               /\ fs' = fs \ {audio_to_process}
            \/ /\ calls' = Append(calls, Call("remove", audio_to_process, "raises"))
               /\ fs' = fs
       ELSE UNCHANGED <<calls, fs>>
    /\ transcription' = Some(Extract(response))
    /\ outcomes' = Append(outcomes,
                          [file |-> audio_file_path, ret |-> transcription',
                           completed |-> TRUE])
    /\ pc' = "returned"
    /\ UNCHANGED <<mode, argv, entries, audio_files, idx, written, nextTemp,
                   audio_file_path, audio_to_process, duration, gcs_uri, response,
                   created, completed>>

(***************************************************************************)
(* The caller (the batch loop, or __main__): if transcription: write the   *)
(* sibling text file.                                                      *)
(***************************************************************************)
Persist ==
    /\ pc = "returned"
    /\ IF Truthy(transcription)
       THEN LET output_file == OutputFile(audio_file_path) IN
            /\ written' = [n \in DOMAIN written \cup {output_file} |->
                             IF n = output_file THEN transcription.val ELSE written[n]]
            /\ fs' = fs \cup {output_file}
       ELSE UNCHANGED <<written, fs>>
    /\ IF mode = "batch"
       THEN pc' = "loop" /\ idx' = idx + 1
       ELSE pc' = "done" /\ idx' = idx
    /\ audio_file_path' = << >>
    /\ FreshLocals
    /\ UNCHANGED <<mode, argv, entries, audio_files, nextTemp, outcomes>>

Next ==
    \/ MainCli
    \/ ListAudioFiles
    \/ LoopStep
    \/ CheckExists
    \/ Convert
    \/ CreateClient
    \/ Probe
    \/ Upload
    \/ RecognizeLong
    \/ RecognizeSync
    \/ CleanupAndExtract
    \/ Persist

Spec == Init /\ [][Next]_vars

(***************************************************************************)
(* Vocabulary of the properties.                                           *)
(***************************************************************************)
CallsOf(ops) == { i \in DOMAIN calls : calls[i].op \in ops }
InCall == pc \in {"convert", "client", "probe", "upload", "recognize",
                  "cleanup", "returned", "crashed"}
Probed == CallsOf({"ffprobe"}) # {}
InputFiles == Range(entries) \cup {argv}
IsWavInput == InCall /\ audio_to_process # << >> /\
              Ext(audio_file_path) \in { Wav, <<".", "W", "A", "V">>, <<".", "W", "a", "v">> }
\* The current call converted its input: a temporary file is being processed.
Converted == audio_to_process # << >> /\ audio_to_process # audio_file_path
\* The text of the top-ranked alternative of every result, in response order.
ConcatTop(resp) == ConcatAll([i \in 1..Len(resp) |-> resp[i][1]])

(***************************************************************************)
(* C1: when transcribe_audio returns after a successful conversion, the    *)
(* temporary file has been removed exactly once, after the recognition     *)
(* attempt resolved, whatever the attempt's outcome (success, exception or *)
(* timeout, staging failure).                                              *)
(***************************************************************************)
C1_TempRemovedOnEveryOutcome ==
    (pc = "returned" /\ Converted) =>
        /\ Cardinality(CallsOf({"remove"})) = 1
        /\ \A i \in CallsOf({"remove"}) :
             /\ calls[i].arg = audio_to_process
             /\ \A j \in CallsOf(RecognitionOps \cup {"upload_to_gcs"}) : j < i

(***************************************************************************)
(* C2: no exception of the dispatch step (client creation, staging,        *)
(* reading, recognize, submit, wait) leaves transcribe_audio: the call     *)
(* never ends by a propagated exception.                                   *)
(***************************************************************************)
C2_NoExceptionPropagates == pc # "crashed"

(***************************************************************************)
(* C3: with a probed duration <= 60 (0 and 60 included) or an unknown      *)
(* duration, the stager and long_running_recognize are never called, the   *)
(* only recognition call is recognize with the processed file's bytes      *)
(* inline, and a response was obtained only through that call.             *)
(***************************************************************************)
C3_ShortUsesSynchronousPath ==
    (Probed /\ (duration.isNone \/ duration.val <= LongThreshold)) =>
        /\ CallsOf({"upload_to_gcs", "long_running_recognize"}) = {}
        /\ \A i \in CallsOf({"recognize"}) :
             calls[i].arg = [kind |-> "content", val |-> ReadBytes(audio_to_process)]
        /\ Cardinality(CallsOf({"recognize"})) <= 1
        /\ (pc \in {"cleanup", "returned"} /\ completed) =>
              \E i \in CallsOf({"recognize"}) : calls[i].res = "ok"

C3_Witness ==
    /\ pc = "returned"
    /\ completed
    /\ ~duration.isNone
    /\ duration.val = LongThreshold
    /\ CallsOf({"recognize"}) # {}

(***************************************************************************)
(* C4: with a probed duration > 60, the stager is called before any        *)
(* recognition call; if it fails the call returns None with no recognition *)
(* call; if it succeeds the one recognition call is long_running_recognize *)
(* on the returned locator, and recognize is never called.                 *)
(***************************************************************************)
C4_LongStagesFirst ==
    (Probed /\ ~duration.isNone /\ duration.val > LongThreshold) =>
        /\ CallsOf({"recognize"}) = {}
        /\ Cardinality(CallsOf({"long_running_recognize"})) <= 1
        /\ \A i \in CallsOf({"long_running_recognize"}) :
             /\ \E j \in CallsOf({"upload_to_gcs"}) : j < i /\ calls[j].res = "ok"
             /\ calls[i].arg = [kind |-> "uri", val |-> GcsUri(audio_to_process)]
        /\ (\E j \in CallsOf({"upload_to_gcs"}) : calls[j].res # "ok") =>
              /\ pc = "returned"
              /\ transcription = None
              /\ CallsOf(RecognitionOps) = {}
        /\ (pc \in {"cleanup", "returned"} /\ completed) =>
              \E i \in CallsOf({"long_running_recognize"}) : calls[i].res = "ok"

C4_Witness ==
    /\ pc = "returned"
    /\ completed
    /\ duration.val = LongThreshold + 1
    /\ \E i \in CallsOf({"long_running_recognize"}) : calls[i].arg.kind = "uri"

(***************************************************************************)
(* C5: the transcript returned for a response is the concatenation of the  *)
(* top-ranked alternative of each result, in response order; lower-ranked  *)
(* alternatives contribute nothing.                                        *)
(***************************************************************************)
C5_TranscriptIsTopAlternatives ==
    (pc = "returned" /\ completed) => transcription = Some(ConcatTop(response))

(***************************************************************************)
(* C6: when the batch loop ends after some file failed (transcribe_audio   *)
(* returned None for it), every matching file of the listing has been      *)
(* processed, in listing order, and each one whose recognition completed   *)
(* has its transcript file.                                                *)
(***************************************************************************)
C6_BatchIsolation ==
    (mode = "batch" /\ pc = "done" /\ \E k \in 1..Len(outcomes) : outcomes[k].ret = None) =>
        /\ [i \in 1..Len(outcomes) |-> outcomes[i].file] = audio_files
        /\ \A i \in 1..Len(outcomes) :
             outcomes[i].completed =>
                /\ OutputFile(outcomes[i].file) \in DOMAIN written
                /\ written[OutputFile(outcomes[i].file)] = outcomes[i].ret.val

(***************************************************************************)
(* C7: once the caller has handled a call's result, the sibling text file  *)
(* holds exactly the returned transcript if the recognition completed      *)
(* (whatever the text, the empty one included), and no text file was       *)
(* written for an input whose processing failed.                           *)
(***************************************************************************)
C7_OneTextFilePerSuccess ==
    (pc \in {"loop", "done"}) =>
        \A i \in 1..Len(outcomes) :
            LET o == outcomes[i] IN
            IF o.completed
            THEN /\ OutputFile(o.file) \in DOMAIN written
                 /\ OutputFile(o.file) \in fs
                 /\ written[OutputFile(o.file)] = o.ret.val
            ELSE OutputFile(o.file) \notin DOMAIN written

(***************************************************************************)
(* C8: for an input whose extension is not .wav (in any letter case) and   *)
(* whose conversion fails (tool missing or nonzero exit), transcribe_audio *)
(* returns None and calls neither the prober, nor the stager, nor the      *)
(* recognition service.                                                    *)
(***************************************************************************)
C8_FailedConversionStops ==
    (\E i \in CallsOf({"ffmpeg"}) : calls[i].res # "ok") =>
        /\ pc = "returned"
        /\ transcription = None
        /\ CallsOf({"SpeechClient", "ffprobe", "upload_to_gcs"} \cup RecognitionOps) = {}

C8_Witness ==
    /\ pc = "returned"
    /\ \E i \in CallsOf({"ffmpeg"}) : calls[i].res = "CalledProcessError"
    /\ Ext(audio_file_path) = <<".", "M", "P", "3">>

(***************************************************************************)
(* C9: for an existing input whose extension is .wav in any letter case,   *)
(* no transcoder runs, no temporary file is created, and the path handed   *)
(* to the prober, the stager and the recognition step is the input path.   *)
(***************************************************************************)
C9_WavIsProcessedInPlace ==
    IsWavInput =>
        /\ CallsOf({"ffmpeg"}) = {}
        /\ created = {}
        /\ audio_to_process = audio_file_path
        /\ \A i \in CallsOf({"ffprobe", "upload_to_gcs"}) : calls[i].arg = audio_file_path
        /\ \A i \in CallsOf({"recognize"}) :
             calls[i].arg.val = ReadBytes(audio_file_path)
        /\ \A i \in CallsOf({"long_running_recognize"}) :
             calls[i].arg.val = GcsUri(audio_file_path)

C9_Witness ==
    /\ pc = "returned"
    /\ completed
    /\ Ext(audio_file_path) = <<".", "W", "A", "V">>
    /\ CallsOf({"ffprobe"}) # {}
    /\ CallsOf({"recognize"}) # {}

(***************************************************************************)
(* C10: in every step, a file that stops existing is a temporary file the  *)
(* current transcribe_audio created, never its input nor any other source  *)
(* file; and a removal is attempted only on such a file, different from    *)
(* the input path.                                                         *)
(***************************************************************************)
C10_Step ==
    /\ \A f \in fs \ fs' :
         f \in created /\ f # audio_file_path /\ f \notin InputFiles
    /\ (Len(calls') > Len(calls) /\ calls'[Len(calls')].op = "remove") =>
          LET f == calls'[Len(calls')].arg IN
          f \in created /\ f # audio_file_path /\ f \notin InputFiles

C10_SourceNeverDeleted == [][C10_Step]_vars

C10_Witness ==
    /\ pc = "returned"
    /\ \E i \in CallsOf({"remove"}) : calls[i].res = "ok" /\ calls[i].arg \notin fs
    /\ audio_file_path \in fs
    /\ Len(outcomes) = 2

====
